---- MODULE Spec2Model ----
(***************************************************************************)
(* Model of the code-review frontend: the review page's status polling     *)
(* (app/reviews/[id]/page.tsx), the typed HTTP client (lib/api.ts), the    *)
(* submit form (app/page.tsx) and the queries and mutations of the other   *)
(* pages, as they run on top of the TanStack Query cache.                  *)
(***************************************************************************)
EXTENDS Integers, Sequences, FiniteSets, TLC

VARIABLES
    \* ---- review page (app/reviews/[id]/page.tsx) ----
    mounted,          \* the ReviewPage component is mounted
    srv,              \* status of the review on the backend
    srvComments,      \* comments of the review on the backend
    queued,           \* backend accepted an analysis that no worker started yet
    qData,            \* query.state.data of ["review", reviewId]
    qError,           \* query.state.error
    qFetching,        \* query.state.fetchStatus = "fetching"
    qInvalidated,     \* query.state.isInvalidated
    orphans,          \* GET requests superseded by a refetch, still on the wire
    timer,            \* interval of the armed refetch timer, 0 when none
    mStatus,          \* analyzeMutation.status as seen by the component
    posts,            \* analyze POST requests on the wire
    useComplexModel,  \* the "Use Claude Opus" checkbox
    awaiting,         \* an analyze request succeeded and the user did nothing since
    editor,           \* the Monaco editor of the page: none, loading or ready
    decorations,      \* line decorations the editor carries
    last,             \* last step taken: its name, the view before it, the API call
    \* ---- submit form (app/page.tsx) ----
    code,             \* useState("") code, a sequence of characters
    language,         \* useState("") language
    filename,         \* useState("") filename
    createStatus,     \* createReview.status
    createData,       \* createReview.data: the review the last success returned
    createReq,        \* body of the create-review request on the wire
    route,            \* the route the router is at
    hLast,            \* last step of the form and the body it sent
    \* ---- the pages over the shared query cache ----
    page,             \* the page that is mounted
    cache,            \* query cache: key -> [data, error, fetching, invalidated]
    mutStatus,        \* status of the mounted page's mutation
    mutWire,          \* the mutation whose request is on the wire
    fileSelected,     \* RepoPage: selectedFile is set
    syncMessage,      \* GitHubPage: syncMessage
    syncTimers,       \* GitHubPage: setTimeout callbacks that did not run yet
    navs,             \* navigations made
    mutSent,          \* HTTP requests sent for the mutation triggered last
    aLast,            \* last step of the pages and the API call that settled
    \* ---- repository page (app/github/[owner]/[repo]/page.tsx) ----
    repoOpen,         \* the RepoPage component is mounted
    currentPath,      \* useState("") currentPath, a sequence of characters
    selectedFile,     \* useState(null) selectedFile: {} for null, else {path}
    contents,         \* cache entries of ["repo-contents", owner, repo, path]
    files,            \* cache entries of ["file-content", owner, repo, file]
    rmStatus,         \* RepoPage: reviewMutation.status
    rmVariables,      \* RepoPage: reviewMutation.variables: {} or {path}
    rmData,           \* RepoPage: reviewMutation.data
    rmReq,            \* RepoPage: review-file request the mutation waits for
    clickedDirs,      \* directories clicked since the page mounted
    cameFrom,         \* {P} when the last change of currentPath was a click on
                      \* a directory made at currentPath P, else {}
    gLast,            \* last step of the repository page
    \* ---- pull-request review page (PRDetailPage) ----
    prOpen,           \* the PRDetailPage component is mounted
    prSrv,            \* PR reviews on the backend, as listPRReviews lists them
    prData,           \* query.state.data of ["pr-reviews", owner, repo, prNumber]
    prError,          \* query.state.error is set
    prFetching,       \* query.state.fetchStatus = "fetching"
    prInvalidated,    \* query.state.isInvalidated
    prTimer,          \* interval of the armed refetch timer, 0 when none
    prMStatus,        \* reviewMutation.status as seen by the component
    prPosts,          \* review-pull-request POST requests on the wire
    pLast,            \* last step of the pull-request review page
    \* ---- the refetchInterval callbacks over the state of their query ----
    obsPage,          \* the page whose query is observed: "review" or "pr"
    obsQuery,         \* query.state: data, error and the update counts
    obsTimer,         \* interval the observer armed after the last update
    \* ---- GitHubPage: the sync button, its message and its timers ----
    ghOpen,           \* the GitHubPage component is mounted
    instData,         \* the ["github-installations"] query holds data
    instError,        \* the ["github-installations"] query holds an error
    instFetching,     \* a listInstallations request is on the wire
    syncStatus,       \* syncMutation.status
    syncReq,          \* a syncInstallations request is on the wire
    syncs,            \* syncs of this page that settled
    syncMsg,          \* useState(null) syncMessage: {} for null, else the
                      \* message and the sync that set it
    clearTimers,      \* setTimeout callbacks not run yet, in the order they
                      \* were set: the sync that set each
    sLast             \* last step of the GitHub page

rvars == <<mounted, srv, srvComments, queued, qData, qError, qFetching,
           qInvalidated, orphans, timer, mStatus, posts, useComplexModel,
           awaiting, editor, decorations, last>>

hvars == <<code, language, filename, createStatus, createData, createReq,
           route, hLast>>

avars == <<page, cache, mutStatus, mutWire, fileSelected, syncMessage,
           syncTimers, navs, mutSent, aLast>>

gvars == <<repoOpen, currentPath, selectedFile, contents, files, rmStatus,
           rmVariables, rmData, rmReq, clickedDirs, cameFrom, gLast>>

pvars == <<prOpen, prSrv, prData, prError, prFetching, prInvalidated, prTimer,
           prMStatus, prPosts, pLast>>

ovars == <<obsPage, obsQuery, obsTimer>>

svars == <<ghOpen, instData, instError, instFetching, syncStatus, syncReq,
           syncs, syncMsg, clearTimers, sLast>>

vars == <<rvars, hvars, avars, gvars, pvars, ovars, svars>>

----------------------------------------------------------------------------
\* Bounds

\* Requests of the review page (analyze POSTs and superseded GETs) on the wire
MaxInFlight == 2

----------------------------------------------------------------------------
\* Values

None == [kind |-> "none"]

\* query.state.error when no error is held
NoError == "null"

Statuses == {"pending", "analyzing", "completed", "failed"}

Terminal == {"completed", "failed"}

HttpCodes == {200, 404, 500}

\* ReviewComment: the line range and the severity
Comments == {[line_start |-> 1, line_end |-> 1, severity |-> "warning"],
             [line_start |-> 2, line_end |-> 3, severity |-> "error"]}

\* The comments a review can have: none before it completed
CommentsOf(s) == IF s = "completed" THEN SUBSET Comments ELSE {{}}

\* A review as returned by GET /api/reviews/{id}
Review(s, c) == [kind |-> "review", status |-> s, comments |-> c]

ErrorDetail == [kind |-> "detail", status |-> "none", comments |-> {}]

\* What fetch() can produce: a rejected promise, or a response with a status
\* code and a body that parses as JSON or does not.
NetErr == [kind |-> "neterr", code |-> 0, body |-> None, parses |-> FALSE]

Http(c, b, p) == [kind |-> "http", code |-> c, body |-> b, parses |-> p]

----------------------------------------------------------------------------
\* lib/api.ts

ResponseOk(resp) == resp.kind = "http" /\ resp.code >= 200 /\ resp.code <= 299

Throw(msg) == [kind |-> "throw", body |-> None, message |-> msg]

Value(b) == [kind |-> "value", body |-> b, message |-> ""]

ApiErrorMessage(status) ==
    CASE status = 404 -> "API error: 404"
      [] status = 500 -> "API error: 500"
      [] OTHER -> "API error"

fetchApiNoOkCheck(resp) ==
    IF resp.kind = "neterr" THEN Throw("Failed to fetch")
    ELSE IF ~resp.parses THEN Throw("Unexpected token")
    ELSE Value(resp.body)

fetchApi(resp) ==
    IF resp.kind = "neterr" THEN Throw("Failed to fetch")
    ELSE IF ~ResponseOk(resp) THEN Throw(ApiErrorMessage(resp.code))
    ELSE IF ~resp.parses THEN Throw("Unexpected token")
    ELSE Value(resp.body)

\* Responses the backend can give to GET /api/reviews/{id}
GetReviewResponses ==
    {NetErr, Http(200, Review(srv, srvComments), TRUE), Http(200, None, FALSE)}
        \cup {Http(c, ErrorDetail, TRUE) : c \in HttpCodes \ {200}}

----------------------------------------------------------------------------
\* app/reviews/[id]/page.tsx

PollMs == 2000

\* query.state as the refetchInterval callback sees it
Query(data, error) == [data |-> data, error |-> error]

refetchIntervalAlsoPending(query) ==
    IF query.data # None /\ query.data.status \in {"analyzing", "pending"}
    THEN PollMs ELSE 0

refetchIntervalOnlyPending(query) ==
    IF query.data # None /\ query.data.status = "pending" THEN PollMs ELSE 0

refetchIntervalBackoff(query) ==
    IF query.data # None /\ query.data.status = "analyzing"
    THEN PollMs * (1 + query.errorUpdateCount) ELSE 0

refetchIntervalStopOnError(query) ==
    IF query.error = NoError /\ query.data # None /\ query.data.status = "analyzing"
    THEN PollMs ELSE 0

\* refetchInterval: 0 stands for false (no timer)
refetchInterval(query) ==
    IF query.data # None /\ query.data.status = "analyzing" THEN PollMs ELSE 0

isLoading == qFetching /\ qData = None /\ qError = NoError

ReviewPageViewDataOnly ==
    IF isLoading THEN "loading"
    ELSE IF qData = None THEN "error"
    ELSE "review"

ReviewPageView ==
    IF isLoading THEN "loading"
    ELSE IF qError # NoError \/ qData = None THEN "error"
    ELSE "review"

canAnalyzeUnlessAnalyzing == qData # None /\ qData.status # "analyzing"

canAnalyze == qData # None /\ qData.status \in {"pending", "failed"}

isAnalyzing == qData # None /\ qData.status = "analyzing"

\* The status shown by StatusBadge, None when the review is not rendered
DisplayedStatus ==
    IF mounted /\ ReviewPageView = "review" THEN qData.status ELSE "nothing"

\* The block with the checkbox and the Start Analysis button is rendered
StartOffered == mounted /\ ReviewPageView = "review" /\ canAnalyze

\* The controls the rendered page offers
AvailableActions ==
    IF mounted /\ ReviewPageView = "review" /\ canAnalyze
    THEN {"toggle"} \cup (IF mStatus = "pending" THEN {} ELSE {"start"})
    ELSE {}

\* The record of a step: the handler that ran, what the page showed and
\* which status the cache held before it, and the API call that settled
Step(ev, call) == [ev |-> ev,
                   view |-> IF mounted THEN ReviewPageView ELSE "unmounted",
                   held |-> IF qData = None THEN "nothing" ELSE qData.status,
                   call |-> call]

----------------------------------------------------------------------------
\* The query cache under useQuery / invalidateQueries

InFlightGets == (IF qFetching THEN 1 ELSE 0) + orphans

FetchQueryNoDedup(cancelRefetch) ==
    /\ qFetching' = TRUE
    /\ orphans' = IF qFetching THEN orphans + 1 ELSE orphans
    /\ qError' = IF ~qFetching /\ qData = None THEN NoError ELSE qError

\* query.fetch(): a fetch in flight is joined, unless the caller asks to
\* cancel it and data is held; queryFn takes no AbortSignal, so the request
\* of a cancelled fetch stays on the wire and its response is dropped.
FetchQuery(cancelRefetch) ==
    /\ qFetching' = TRUE
    /\ orphans' = IF qFetching /\ qData # None /\ cancelRefetch
                  THEN orphans + 1 ELSE orphans
    /\ qError' = IF ~qFetching /\ qData = None THEN NoError ELSE qError

\* The observer re-arms or clears its interval timer after every update
UpdateTimer ==
    timer' = IF mounted' THEN refetchInterval(Query(qData', qError')) ELSE 0

\* The CodeEditor is rendered with the review; it unmounts with it, and a
\* rendered editor that does not exist yet starts loading
UpdateEditor ==
    LET shown == mounted' /\ ReviewPageView' = "review" IN
    /\ editor' = IF ~shown THEN "none"
                 ELSE IF editor = "none" THEN "loading" ELSE editor
    /\ decorations' = IF ~shown THEN {} ELSE decorations

ReviewInit ==
    /\ mounted = FALSE
    /\ srv \in Statuses
    /\ srvComments \in CommentsOf(srv)
    /\ editor = "none"
    /\ decorations = {}
    /\ queued = FALSE
    /\ qData = None
    /\ qError = NoError
    /\ qFetching = FALSE
    /\ qInvalidated = FALSE
    /\ orphans = 0
    /\ timer = 0
    /\ mStatus = "idle"
    /\ posts = 0
    /\ useComplexModel = FALSE
    /\ awaiting = FALSE
    /\ last = [ev |-> "init", view |-> "unmounted", held |-> "nothing",
               call |-> None]

\* The component mounts: useQuery fetches when nothing is cached, when the
\* entry was invalidated, or when it is older than the client's staleTime.
Mount ==
    /\ ~mounted
    /\ mounted' = TRUE
    /\ \E stale \in BOOLEAN :
          IF qData = None \/ qInvalidated \/ stale
          THEN FetchQuery(FALSE)
          ELSE UNCHANGED <<qFetching, orphans, qError>>
    /\ last' = Step("mount", None)
    /\ UNCHANGED <<srv, srvComments, queued, qData, qInvalidated, mStatus,
                   posts, useComplexModel, awaiting>>
    /\ UNCHANGED <<hvars, avars, gvars, pvars, ovars, svars>>
    /\ UpdateTimer
    /\ UpdateEditor

\* The component unmounts: its state and its timer are gone, requests on
\* the wire continue.
Unmount ==
    /\ mounted
    /\ mounted' = FALSE
    /\ mStatus' = "idle"
    /\ useComplexModel' = FALSE
    /\ awaiting' = FALSE
    /\ last' = Step("unmount", None)
    /\ UNCHANGED <<srv, srvComments, queued, qData, qError, qFetching,
                   qInvalidated, orphans, posts>>
    /\ UNCHANGED <<hvars, avars, gvars, pvars, ovars, svars>>
    /\ UpdateTimer
    /\ UpdateEditor

\* The refetch timer fires
TimerTick ==
    /\ mounted
    /\ timer # 0
    /\ FetchQuery(FALSE)
    /\ last' = Step("timer", None)
    /\ UNCHANGED <<mounted, srv, srvComments, queued, qData, qInvalidated,
                   mStatus, posts, useComplexModel, awaiting>>
    /\ UNCHANGED <<hvars, avars, gvars, pvars, ovars, svars>>
    /\ UpdateTimer
    /\ UpdateEditor

\* queryFn: api.getReview(reviewId) settles with the response resp
FetchReturnWith(resp) ==
    /\ qFetching
    /\ LET out == fetchApi(resp) IN
       /\ IF out.kind = "value"
          THEN /\ qData' = out.body
               /\ qError' = NoError
               /\ qInvalidated' = FALSE
          ELSE /\ qError' = out.message
               /\ UNCHANGED <<qData, qInvalidated>>
       /\ last' = Step(IF out.kind = "value" THEN "fetch_ok" ELSE "fetch_err",
                       [resp |-> resp, out |-> out])
    /\ qFetching' = FALSE
    /\ UNCHANGED <<mounted, srv, srvComments, queued, orphans, mStatus, posts,
                   useComplexModel, awaiting>>
    /\ UNCHANGED <<hvars, avars, gvars, pvars, ovars, svars>>
    /\ UpdateTimer
    /\ UpdateEditor

FetchReturn == \E resp \in GetReviewResponses : FetchReturnWith(resp)

\* The backend answers the GET with the review
FetchSucceeds == FetchReturnWith(Http(200, Review(srv, srvComments), TRUE))

\* The response to a superseded request arrives and is dropped
OrphanReturn ==
    /\ orphans > 0
    /\ orphans' = orphans - 1
    /\ last' = Step("orphan", None)
    /\ UNCHANGED <<mounted, srv, srvComments, queued, qData, qError, qFetching,
                   qInvalidated, timer, mStatus, posts, useComplexModel,
                   awaiting>>
    /\ UNCHANGED <<editor, decorations>>
    /\ UNCHANGED <<hvars, avars, gvars, pvars, ovars, svars>>

\* handleEditorMount(editor, monaco), the onMount of the editor, which the
\* editor calls once, when it was created
handleEditorMount(highlightedLines) ==
    IF highlightedLines # {}
    THEN {[start |-> c.line_start, end |-> c.line_end] : c \in highlightedLines}
    ELSE {}

\* The editor was created: onMount runs with the highlightedLines of the
\* last render
EditorReady ==
    /\ editor = "loading"
    /\ editor' = "ready"
    /\ decorations' = handleEditorMount(qData.comments)
    /\ last' = Step("editor_mount", None)
    /\ UNCHANGED <<mounted, srv, srvComments, queued, qData, qError, qFetching,
                   qInvalidated, orphans, timer, mStatus, posts,
                   useComplexModel, awaiting>>
    /\ UNCHANGED <<hvars, avars, gvars, pvars, ovars, svars>>

\* onChange of the checkbox
ToggleComplexModel ==
    /\ "toggle" \in AvailableActions
    /\ useComplexModel' = ~useComplexModel
    /\ awaiting' = FALSE
    /\ last' = Step("toggle", None)
    /\ UNCHANGED <<mounted, srv, srvComments, queued, qData, qError, qFetching,
                   qInvalidated, orphans, timer, mStatus, posts>>
    /\ UNCHANGED <<editor, decorations>>
    /\ UNCHANGED <<hvars, avars, gvars, pvars, ovars, svars>>

\* api.analyzeReview(id, useComplexModel = false): the request it sends
analyzeReviewDefaultModel(complex) ==
    [endpoint |-> "POST /api/reviews/{id}/analyze",
     body |-> [use_complex_model |-> FALSE]]

analyzeReview(complex) ==
    [endpoint |-> "POST /api/reviews/{id}/analyze",
     body |-> [use_complex_model |-> complex]]

\* onClick of Start Analysis: analyzeMutation.mutate() runs the mutationFn
\* of the last render, () => api.analyzeReview(reviewId, useComplexModel)
ClickStartAnalysis ==
    /\ "start" \in AvailableActions
    /\ posts + orphans < MaxInFlight
    /\ mStatus' = "pending"
    /\ posts' = posts + 1
    /\ awaiting' = FALSE
    /\ last' = Step("start", analyzeReview(useComplexModel))
    /\ UNCHANGED <<mounted, srv, srvComments, queued, qData, qError, qFetching,
                   qInvalidated, orphans, timer, useComplexModel>>
    /\ UNCHANGED <<editor, decorations>>
    /\ UNCHANGED <<hvars, avars, gvars, pvars, ovars, svars>>

\* onSuccess of analyzeMutation: invalidateQueries marks the entry and
\* refetches it, cancelling a fetch in flight, when an observer is mounted.
analyzeOnSuccessNoInvalidate ==
    UNCHANGED <<qData, qInvalidated, qFetching, orphans, qError>>

analyzeOnSuccessWritesCache ==
    /\ qData' = Review(srv', srvComments)
    /\ qInvalidated' = TRUE
    /\ IF mounted
       THEN FetchQuery(TRUE)
       ELSE UNCHANGED <<qFetching, orphans, qError>>

\* The review the analyze request returned is not used
analyzeOnSuccess ==
    /\ UNCHANGED qData
    /\ qInvalidated' = TRUE
    /\ IF mounted
       THEN FetchQuery(TRUE)
       ELSE UNCHANGED <<qFetching, orphans, qError>>

\* mutationFn: api.analyzeReview settles.  The backend follows the lifecycle
\* pending -> analyzing -> completed/failed: it accepts an analysis of a
\* pending or failed review and either starts it at once or queues it, the
\* status changing to "analyzing" when a worker picks it up.
AnalyzeReturn ==
    /\ posts > 0
    /\ \E tracked \in BOOLEAN, accept \in BOOLEAN, now \in BOOLEAN,
          rej \in {NetErr} \cup {Http(c, ErrorDetail, TRUE) : c \in HttpCodes \ {200}} :
          /\ tracked => mounted /\ mStatus = "pending"
          /\ ~tracked => posts > (IF mStatus = "pending" THEN 1 ELSE 0)
          /\ accept => srv \in {"pending", "failed"}
          /\ ~accept => now
          /\ srv' = IF accept /\ now THEN "analyzing" ELSE srv
          /\ queued' = IF accept THEN ~now ELSE queued
          /\ LET resp == IF accept THEN Http(200, Review(srv', srvComments), TRUE) ELSE rej
                 out == fetchApi(resp) IN
             /\ IF out.kind = "value"
                THEN analyzeOnSuccess
                ELSE UNCHANGED <<qData, qInvalidated, qFetching, orphans, qError>>
             /\ mStatus' = IF tracked
                           THEN (IF out.kind = "value" THEN "success" ELSE "error")
                           ELSE mStatus
             /\ awaiting' = IF tracked /\ out.kind = "value" THEN TRUE ELSE awaiting
             /\ last' = Step(IF out.kind = "value" THEN "analyze_ok" ELSE "analyze_err",
                             [resp |-> resp, out |-> out])
    /\ posts' = posts - 1
    /\ UNCHANGED <<mounted, srvComments, useComplexModel>>
    /\ UNCHANGED <<hvars, avars, gvars, pvars, ovars, svars>>
    /\ UpdateTimer
    /\ UpdateEditor

\* A worker of the backend picks up the queued analysis
WorkerStart ==
    /\ queued
    /\ srv \in {"pending", "failed"}
    /\ srv' = "analyzing"
    /\ queued' = FALSE
    /\ last' = Step("worker_start", None)
    /\ UNCHANGED <<mounted, srvComments, qData, qError, qFetching,
                   qInvalidated, orphans, timer, mStatus, posts,
                   useComplexModel, awaiting>>
    /\ UNCHANGED <<editor, decorations>>
    /\ UNCHANGED <<hvars, avars, gvars, pvars, ovars, svars>>

\* The analysis ends
WorkerFinish ==
    /\ srv = "analyzing"
    /\ srv' \in Terminal
    /\ srvComments' \in CommentsOf(srv')
    /\ last' = Step("worker_finish", None)
    /\ UNCHANGED <<mounted, queued, qData, qError, qFetching, qInvalidated,
                   orphans, timer, mStatus, posts, useComplexModel, awaiting>>
    /\ UNCHANGED <<editor, decorations>>
    /\ UNCHANGED <<hvars, avars, gvars, pvars, ovars, svars>>


----------------------------------------------------------------------------
\* app/page.tsx: the submit form

MaxCodeLen == 2

Chars == {" ", "\n", "a"}

WhiteSpace == {" ", "\n"}

Codes == UNION {[1..n -> Chars] : n \in 0..MaxCodeLen}

\* values of LANGUAGES offered by the select
Languages == {"", "python", "typescript"}

Filenames == {"", "main.py"}

RECURSIVE trimStart(_)
trimStart(str) ==
    IF str # <<>> /\ Head(str) \in WhiteSpace THEN trimStart(Tail(str)) ELSE str

RECURSIVE trimEnd(_)
trimEnd(str) ==
    IF str # <<>> /\ str[Len(str)] \in WhiteSpace
    THEN trimEnd(SubSeq(str, 1, Len(str) - 1)) ELSE str

\* String.prototype.trim
trim(str) == trimEnd(trimStart(str))

\* value || undefined
OrUndefined(v) == IF v = "" THEN "undefined" ELSE v

submitDisabledOnlyEmpty == code = <<>> \/ createStatus = "pending"

\* disabled={!code.trim() || createReview.isPending}
submitDisabled == trim(code) = <<>> \/ createStatus = "pending"

HomeStep(ev, sent) == [ev |-> ev, sent |-> sent]

\* {createReview.isError && <p>Failed to create review. Please try again.</p>}
createFailureShown == route = "/" /\ createStatus = "error"

HomeInit ==
    /\ code = <<>>
    /\ language = ""
    /\ filename = ""
    /\ createStatus = "idle"
    /\ createData = None
    /\ createReq = None
    /\ route = "/"
    /\ hLast = HomeStep("init", None)

\* onChange of the editor
SetCode ==
    /\ route = "/"
    /\ \E c \in Codes : code' = c
    /\ hLast' = HomeStep("code", None)
    /\ UNCHANGED <<language, filename, createStatus, createData, createReq, route>>
    /\ UNCHANGED <<rvars, avars, gvars, pvars, ovars, svars>>

\* onChange of the language select
SetLanguage ==
    /\ route = "/"
    /\ \E l \in Languages : language' = l
    /\ hLast' = HomeStep("language", None)
    /\ UNCHANGED <<code, filename, createStatus, createData, createReq, route>>
    /\ UNCHANGED <<rvars, avars, gvars, pvars, ovars, svars>>

\* onChange of the filename input
SetFilename ==
    /\ route = "/"
    /\ \E f \in Filenames : filename' = f
    /\ hLast' = HomeStep("filename", None)
    /\ UNCHANGED <<code, language, createStatus, createData, createReq, route>>
    /\ UNCHANGED <<rvars, avars, gvars, pvars, ovars, svars>>

\* handleSubmit: returns early on blank code, else createReview.mutate()
handleSubmit ==
    IF trim(code) = <<>>
    THEN /\ hLast' = HomeStep("submit", None)
         /\ UNCHANGED <<createStatus, createData, createReq>>
    ELSE LET body == [code_content |-> code,
                      language |-> OrUndefined(language),
                      filename |-> OrUndefined(filename)] IN
         /\ createStatus' = "pending"
         /\ createData' = None
         /\ createReq' = body
         /\ hLast' = HomeStep("submit", body)

\* onClick of the submit button, which a disabled button does not deliver
ClickSubmit ==
    /\ route = "/"
    /\ ~submitDisabled
    /\ handleSubmit
    /\ UNCHANGED <<code, language, filename, route>>
    /\ UNCHANGED <<rvars, avars, gvars, pvars, ovars, svars>>

\* ids the backend gives to created reviews
ReviewIds == {1, 2}

\* `/reviews/${data.id}`
ReviewRoute(id) == "/reviews/" \o ToString(id)

\* responses of POST /api/reviews
CreateResponses ==
    {NetErr}
    \cup {Http(200, [kind |-> "created", id |-> i], TRUE) : i \in ReviewIds}
    \cup {Http(200, [kind |-> "created", id |-> 1], FALSE)}
    \cup {Http(c, ErrorDetail, TRUE) : c \in HttpCodes \ {200}}

createOnSuccessFirstId(data) == route' = ReviewRoute(1)

\* onSuccess: (data) => router.push(`/reviews/${data.id}`)
createOnSuccess(data) == route' = ReviewRoute(data.id)

\* mutationFn: api.createReview settles; onSuccess pushes the review's route,
\* and no onError is given: a failure only sets the mutation's status
CreateReturn ==
    /\ createReq # None
    /\ \E resp \in CreateResponses :
          LET out == fetchApi(resp) IN
          IF out.kind = "value"
          THEN /\ createStatus' = "success"
               /\ createData' = out.body
               /\ createOnSuccess(out.body)
               /\ hLast' = HomeStep("create_ok", None)
          ELSE /\ createStatus' = "error"
               /\ hLast' = HomeStep("create_err", None)
               /\ UNCHANGED <<createData, route>>
    /\ createReq' = None
    /\ UNCHANGED <<code, language, filename>>
    /\ UNCHANGED <<rvars, avars, gvars, pvars, ovars, svars>>

\* Back to the form: the page mounts with fresh state
OpenForm ==
    /\ route # "/"
    /\ code' = <<>>
    /\ language' = ""
    /\ filename' = ""
    /\ createStatus' = "idle"
    /\ createData' = None
    /\ createReq' = None
    /\ route' = "/"
    /\ hLast' = HomeStep("open", None)
    /\ UNCHANGED <<rvars, avars, gvars, pvars, ovars, svars>>

NextHome ==
    \/ SetCode
    \/ SetLanguage
    \/ SetFilename
    \/ ClickSubmit
    \/ CreateReturn
    \/ OpenForm

----------------------------------------------------------------------------
\* The pages over the shared query cache: every useQuery and useMutation

MaxNav == 2

MaxSyncTimers == 1

Pages == {"home", "reviews", "review", "github", "repo", "pulls", "prdetail"}

\* queryKey of each useQuery, without its parameters
QueryKeys == {"reviews", "review", "github-installations", "repo-contents",
              "file-content", "pulls", "pr-reviews"}

Mutations == {"createReview", "analyzeReview", "syncInstallations",
              "reviewFile", "pulls.reviewPullRequest", "pr.reviewPullRequest"}

\* The queries a mounted page observes (file-content is enabled by selectedFile)
ActiveQueries(pg, sel) ==
    CASE pg = "reviews" -> {"reviews"}
      [] pg = "review" -> {"review"}
      [] pg = "github" -> {"github-installations"}
      [] pg = "repo" -> {"repo-contents"} \cup (IF sel THEN {"file-content"} ELSE {})
      [] pg = "pulls" -> {"pulls"}
      [] pg = "prdetail" -> {"pr-reviews"}
      [] OTHER -> {}

\* The useMutation of each page
MutationOf(pg) ==
    CASE pg = "home" -> "createReview"
      [] pg = "review" -> "analyzeReview"
      [] pg = "github" -> "syncInstallations"
      [] pg = "repo" -> "reviewFile"
      [] pg = "pulls" -> "pulls.reviewPullRequest"
      [] pg = "prdetail" -> "pr.reviewPullRequest"
      [] OTHER -> "none"

\* The endpoint each queryFn and mutationFn calls
Endpoint(name) ==
    CASE name = "reviews" -> "GET /api/reviews"
      [] name = "review" -> "GET /api/reviews/{id}"
      [] name = "github-installations" -> "GET /api/github/installations"
      [] name = "repo-contents" -> "GET /api/github/repos/{owner}/{repo}/contents"
      [] name = "file-content" -> "GET /api/github/repos/{owner}/{repo}/file"
      [] name = "pulls" -> "GET /api/github/repos/{owner}/{repo}/pulls"
      [] name = "pr-reviews" -> "GET /api/github/repos/{owner}/{repo}/pulls/{n}/reviews"
      [] name = "createReview" -> "POST /api/reviews"
      [] name = "analyzeReview" -> "POST /api/reviews/{id}/analyze"
      [] name = "syncInstallations" -> "POST /api/github/installations/sync"
      [] name = "reviewFile" -> "POST /api/github/repos/{owner}/{repo}/review"
      [] OTHER -> "POST /api/github/repos/{owner}/{repo}/pulls/{n}/review"

\* The resources whose GET representation a successful mutation changes
Affects(m) ==
    CASE m = "createReview" -> {"reviews"}
      [] m = "analyzeReview" -> {"review", "reviews"}
      [] m = "syncInstallations" -> {"github-installations"}
      [] m = "reviewFile" -> {"reviews"}
      [] OTHER -> {"pr-reviews"}

\* The keys each onSuccess passes to invalidateQueries
InvalidatedBy(m) ==
    CASE m = "analyzeReview" -> {"review"}
      [] m = "syncInstallations" -> {"github-installations"}
      [] m = "pulls.reviewPullRequest" -> {"pulls"}
      [] m = "pr.reviewPullRequest" -> {"pr-reviews"}
      [] OTHER -> {}

\* Bodies of ok responses: a list endpoint returns an empty or a non-empty list
OkBodies(name) ==
    IF name \in {"reviews", "github-installations", "repo-contents", "pulls",
                 "pr-reviews"}
    THEN {"empty", "items"}
    ELSE {"items"}

Responses(name) ==
    {NetErr, Http(200, "garbage", FALSE)}
        \cup {Http(200, b, TRUE) : b \in OkBodies(name)}
        \cup {Http(c, "detail", TRUE) : c \in HttpCodes \ {200}}

EmptyEntry == [data |-> "none", error |-> FALSE, fetching |-> FALSE,
               invalidated |-> FALSE]

\* isLoading of a query: fetching with nothing held
EntryLoading(k) == cache[k].fetching /\ cache[k].data = "none" /\ ~cache[k].error

\* What each page renders for its query
QueryView(k) ==
    IF EntryLoading(k) THEN "loading"
    ELSE CASE k \in {"reviews", "github-installations"} ->
                IF cache[k].error THEN "failure"
                ELSE IF cache[k].data = "empty" THEN "empty" ELSE "list"
           [] k = "review" ->
                IF cache[k].error \/ cache[k].data = "none" THEN "failure" ELSE "list"
           [] k = "file-content" ->
                IF cache[k].data = "none" THEN "blank" ELSE "list"
           [] OTHER ->
                IF cache[k].data \in {"none", "empty"} THEN "empty" ELSE "list"

\* The failure message a page renders for its mutation
MutationFailureShown(m) ==
    CASE m = "createReview" -> page = "home" /\ mutStatus = "error"
      [] m = "syncInstallations" -> page = "github" /\ syncMessage = "error"
      [] OTHER -> FALSE

AppStep(ev, name, call) == [ev |-> ev, name |-> name, call |-> call]

\* query.fetch() on the entry of key k
StartFetch(c, k) ==
    [c EXCEPT ![k].fetching = TRUE,
              ![k].error = IF ~c[k].fetching /\ c[k].data = "none"
                           THEN FALSE ELSE c[k].error]

\* The queries of the mounted page that start fetching on mount
MountFetches(c, pg, sel, stale) ==
    {k \in ActiveQueries(pg, sel) :
        c[k].data = "none" \/ c[k].invalidated \/ stale}

RECURSIVE StartAll(_, _)
StartAll(c, ks) ==
    IF ks = {} THEN c
    ELSE LET k == CHOOSE x \in ks : TRUE IN StartAll(StartFetch(c, k), ks \ {k})

RECURSIVE InvalidateAll(_, _)
InvalidateAll(c, ks) ==
    IF ks = {} THEN c
    ELSE LET k == CHOOSE x \in ks : TRUE IN
         InvalidateAll([c EXCEPT ![k].invalidated = TRUE], ks \ {k})

AppInit ==
    /\ page = "home"
    /\ cache = [k \in QueryKeys |-> EmptyEntry]
    /\ mutStatus = "idle"
    /\ mutWire = "none"
    /\ fileSelected = FALSE
    /\ syncMessage = "none"
    /\ syncTimers = 0
    /\ navs = 0
    /\ mutSent = 0
    /\ aLast = AppStep("init", "none", None)

\* The page is quiet: nothing it started is on the wire
PageQuiet ==
    /\ mutWire = "none"
    /\ \A k \in QueryKeys : ~cache[k].fetching

\* Client-side navigation (Link, router.push, history): pg mounts over the
\* same cache, with fresh component state
Navigate ==
    /\ navs < MaxNav
    /\ PageQuiet
    /\ \E pg \in Pages \ {page}, stale \in BOOLEAN :
          /\ page' = pg
          /\ cache' = StartAll(cache, MountFetches(cache, pg, FALSE, stale))
          /\ aLast' = AppStep("navigate", pg, None)
    /\ mutStatus' = "idle"
    /\ fileSelected' = FALSE
    /\ syncMessage' = "none"
    /\ navs' = navs + 1
    /\ mutSent' = 0
    /\ UNCHANGED <<mutWire, syncTimers>>
    /\ UNCHANGED <<rvars, hvars, gvars, pvars, ovars, svars>>

\* RepoPage handleFileClick on a file: the file-content query is enabled
SelectFile ==
    /\ page = "repo"
    /\ ~fileSelected
    /\ QueryView("repo-contents") = "list"
    /\ fileSelected' = TRUE
    /\ cache' = StartAll(cache, MountFetches(cache, page, TRUE, FALSE))
    /\ aLast' = AppStep("select", "file-content", None)
    /\ UNCHANGED <<page, mutStatus, mutWire, syncMessage, syncTimers, navs,
                   mutSent>>
    /\ UNCHANGED <<rvars, hvars, gvars, pvars, ovars, svars>>

\* A queryFn settles
QueryReturn ==
    /\ \E k \in QueryKeys, resp \in Responses("reviews") \cup Responses("review") :
          /\ cache[k].fetching
          /\ resp \in Responses(k)
          /\ LET out == fetchApi(resp) IN
             /\ cache' = IF out.kind = "value"
                         THEN [cache EXCEPT ![k] = [data |-> out.body,
                                                    error |-> FALSE,
                                                    fetching |-> FALSE,
                                                    invalidated |-> FALSE]]
                         ELSE [cache EXCEPT ![k].error = TRUE,
                                            ![k].fetching = FALSE]
             /\ aLast' = AppStep(IF out.kind = "value" THEN "query_ok" ELSE "query_err",
                                k,
                                [endpoint |-> Endpoint(k), resp |-> resp, out |-> out])
    /\ UNCHANGED <<page, mutStatus, mutWire, fileSelected, syncMessage,
                   syncTimers, navs, mutSent>>
    /\ UNCHANGED <<rvars, hvars, gvars, pvars, ovars, svars>>

\* The control that triggers the page's mutation is rendered and enabled
MutateEnabled ==
    /\ mutStatus # "pending"
    /\ CASE page = "home" -> TRUE
         [] page = "review" -> QueryView("review") = "list"
         [] page = "github" -> QueryView("github-installations") \in {"empty", "list"}
         [] page = "repo" -> fileSelected
         [] page = "pulls" -> QueryView("pulls") = "list"
         [] page = "prdetail" -> QueryView("pr-reviews") # "loading"
         [] OTHER -> FALSE

\* mutate() of the page's mutation
Mutate ==
    /\ MutateEnabled
    /\ mutWire = "none"
    /\ page = "github" => syncTimers < MaxSyncTimers
    /\ mutStatus' = "pending"
    /\ mutWire' = MutationOf(page)
    /\ mutSent' = 1
    /\ aLast' = AppStep("mutate", MutationOf(page), None)
    /\ UNCHANGED <<page, cache, fileSelected, syncMessage, syncTimers, navs>>
    /\ UNCHANGED <<rvars, hvars, gvars, pvars, ovars, svars>>

\* fetchApi awaits one fetch() and settles with its outcome, whatever it is:
\* it has no loop and never calls fetch() again
fetchApiResendsOnServerError(resp) == resp.kind = "http" /\ resp.code = 500

fetchApiResends(resp) == FALSE

\* retry of the mutations: no useMutation passes one, and the client's
\* default options are stated to hold no retry policy
mutationRetry == 0

\* A mutationFn settles: the request is sent again when the mutation has
\* retries left, else onSuccess / onError run
MutationReturn ==
    /\ mutWire # "none"
    /\ \E resp \in Responses(mutWire) :
          LET out == fetchApi(resp)
              ok == out.kind = "value"
              inv == IF ok THEN InvalidatedBy(mutWire) ELSE {}
              pg == IF ok /\ mutWire = "createReview" THEN "review" ELSE page
              marked == InvalidateAll(cache, inv)
              refetch == (inv \cap ActiveQueries(page, fileSelected))
                            \cup (IF pg # page
                                  THEN MountFetches(marked, pg, FALSE, FALSE)
                                  ELSE {})
          IN
          IF fetchApiResends(resp) \/ (~ok /\ mutSent - 1 < mutationRetry)
          THEN /\ mutSent' = mutSent + 1
               /\ aLast' = AppStep("resend", mutWire,
                                  [endpoint |-> Endpoint(mutWire), resp |-> resp,
                                   out |-> out])
               /\ UNCHANGED <<page, cache, mutStatus, mutWire, syncMessage,
                              syncTimers>>
          ELSE /\ page' = pg
               /\ cache' = StartAll(marked, refetch)
               /\ mutStatus' = IF pg # page THEN "idle"
                               ELSE IF ok THEN "success" ELSE "error"
               /\ syncMessage' = IF mutWire = "syncInstallations"
                                 THEN (IF ok THEN "synced" ELSE "error")
                                 ELSE syncMessage
               /\ syncTimers' = IF mutWire = "syncInstallations"
                                THEN syncTimers + 1 ELSE syncTimers
               /\ aLast' = AppStep(IF ok THEN "mut_ok" ELSE "mut_err", mutWire,
                                  [endpoint |-> Endpoint(mutWire), resp |-> resp,
                                   out |-> out])
               /\ mutWire' = "none"
               /\ UNCHANGED mutSent
    /\ UNCHANGED <<fileSelected, navs>>
    /\ UNCHANGED <<rvars, hvars, gvars, pvars, ovars, svars>>

\* setTimeout(() => setSyncMessage(null), 5000) runs
ClearSyncMessage ==
    /\ syncTimers > 0
    /\ syncTimers' = syncTimers - 1
    /\ syncMessage' = "none"
    /\ aLast' = AppStep("clear", "none", None)
    /\ UNCHANGED <<page, cache, mutStatus, mutWire, fileSelected, navs,
                   mutSent>>
    /\ UNCHANGED <<rvars, hvars, gvars, pvars, ovars, svars>>

NextApp ==
    \/ Navigate
    \/ SelectFile
    \/ QueryReturn
    \/ Mutate
    \/ MutationReturn
    \/ ClearSyncMessage

----------------------------------------------------------------------------
\* app/github/[owner]/[repo]/page.tsx: the repository browser

\* requests of the repository page on the wire at once
MaxRepoInFlight == 2

\* The repository served by the backend. A path is a string, modelled as
\* the sequence of its characters: "", "s", "s/l" and "R", "s/m"
RepoDirs == {<<>>, <<"s">>, <<"s", "/", "l">>}

RepoFiles == {<<"R">>, <<"s", "/", "m">>}

Names == {<<"s">>, <<"l">>, <<"m">>, <<"R">>}

\* path of the entry called name in the directory dir
Under(dir, name) == IF dir = <<>> THEN name ELSE dir \o <<"/">> \o name

\* RepoContentsResponse of a directory: the entries of that directory
Listing(path) ==
    [kind |-> "contents", path |-> path,
     items |-> {[path |-> q, type |-> "dir"] :
                    q \in {d \in RepoDirs \ {<<>>} :
                              \E n \in Names : d = Under(path, n)}}
               \cup {[path |-> q, type |-> "file"] :
                    q \in {f \in RepoFiles : \E n \in Names : f = Under(path, n)}}]

\* FileContentResponse of a file
FileContent(path) == [kind |-> "file", path |-> path]

\* String.prototype.split("/"): the empty string splits into one empty segment
RECURSIVE split(_)
split(str) ==
    IF \A i \in 1..Len(str) : str[i] # "/" THEN <<str>>
    ELSE LET i == CHOOSE j \in 1..Len(str) :
                     str[j] = "/" /\ \A k \in 1..(j - 1) : str[k] # "/" IN
         <<SubSeq(str, 1, i - 1)>> \o split(SubSeq(str, i + 1, Len(str)))

popAll(parts) == <<>>

\* Array.prototype.pop: removes the last element
pop(parts) == SubSeq(parts, 1, Len(parts) - 1)

\* Array.prototype.join("/")
RECURSIVE join(_)
join(parts) ==
    IF parts = <<>> THEN <<>>
    ELSE IF Len(parts) = 1 THEN parts[1]
    ELSE parts[1] \o <<"/">> \o join(Tail(parts))

\* The part of the queryKey that varies: the path is part of the key
contentsKeyNoPath(path) == <<>>

contentsKey(path) == path

fileKey(path) == path

RepoEntry == [data |-> None, error |-> FALSE, req |-> {}]

\* query.fetch() by an observer of the entry c[k], for the request of path:
\* a fetch in flight is joined
Observe(c, k, path, stale) ==
    IF c[k].req = {} /\ (c[k].data = None \/ stale)
    THEN [c EXCEPT ![k].req = {path},
                   ![k].error = IF c[k].data = None THEN FALSE ELSE c[k].error]
    ELSE c

\* data and isLoading of the contents query as the component sees them
ContentsData == contents[contentsKey(currentPath)].data

contentsLoading ==
    LET e == contents[contentsKey(currentPath)] IN
    e.req # {} /\ e.data = None /\ ~e.error

\* contents?.items || [] as given to FileTree, nothing while loading
DisplayedItems ==
    IF ~repoOpen \/ contentsLoading \/ ContentsData = None THEN {}
    ELSE ContentsData.items

\* data of the file-content query, disabled while selectedFile is null
FileData ==
    IF selectedFile = {} THEN None
    ELSE LET f == CHOOSE x \in selectedFile : TRUE IN files[fileKey(f)].data

\* {reviewMutation.isSuccess && <div>Review started! View results</div>},
\* inside the branch rendered while a file is selected
reviewBannerShown == repoOpen /\ selectedFile # {} /\ rmStatus = "success"

\* disabled={reviewMutation.isPending} of the button rendered with a file
reviewThisFileEnabled == repoOpen /\ selectedFile # {} /\ rmStatus # "pending"

\* requests of the page that did not settle yet
RepoInFlight ==
    Cardinality({k \in RepoDirs : contents[k].req # {}})
    + Cardinality({k \in RepoFiles : files[k].req # {}})
    + Cardinality(rmReq)

RepoStep(ev, path) == [ev |-> ev, path |-> path]

rmvars == <<rmStatus, rmVariables, rmData, rmReq>>

\* useMutation on mount: an idle mutation that observes no request
MutationIdle ==
    /\ rmStatus' = "idle"
    /\ rmVariables' = {}
    /\ rmData' = None
    /\ rmReq' = {}

RepoInit ==
    /\ repoOpen = FALSE
    /\ currentPath = <<>>
    /\ selectedFile = {}
    /\ contents = [k \in RepoDirs |-> RepoEntry]
    /\ files = [k \in RepoFiles |-> RepoEntry]
    /\ rmStatus = "idle"
    /\ rmVariables = {}
    /\ rmData = None
    /\ rmReq = {}
    /\ clickedDirs = {}
    /\ cameFrom = {}
    /\ gLast = RepoStep("init", <<>>)

\* The page mounts with currentPath "" and no file selected
RepoEnter ==
    /\ ~repoOpen
    /\ repoOpen' = TRUE
    /\ currentPath' = <<>>
    /\ selectedFile' = {}
    /\ \E stale \in BOOLEAN :
          contents' = Observe(contents, contentsKey(<<>>), <<>>, stale)
    /\ gLast' = RepoStep("enter", <<>>)
    /\ MutationIdle
    /\ clickedDirs' = {}
    /\ cameFrom' = {}
    /\ UNCHANGED files
    /\ RepoInFlight' <= MaxRepoInFlight
    /\ UNCHANGED <<rvars, hvars, avars, pvars, ovars, svars>>

\* The page unmounts: requests on the wire continue, and the answer to a
\* review-file request reaches no component
RepoLeave ==
    /\ repoOpen
    /\ repoOpen' = FALSE
    /\ currentPath' = <<>>
    /\ selectedFile' = {}
    /\ gLast' = RepoStep("leave", <<>>)
    /\ MutationIdle
    /\ clickedDirs' = {}
    /\ cameFrom' = {}
    /\ UNCHANGED <<contents, files>>
    /\ UNCHANGED <<rvars, hvars, avars, pvars, ovars, svars>>

\* handleFileClick(path, type) on an item of the displayed tree
handleFileClick ==
    /\ repoOpen
    /\ \E item \in DisplayedItems, stale \in BOOLEAN :
          IF item.type = "dir"
          THEN /\ currentPath' = item.path
               /\ selectedFile' = {}
               /\ contents' = Observe(contents, contentsKey(item.path),
                                      item.path, stale)
               /\ gLast' = RepoStep("open_dir", item.path)
               /\ clickedDirs' = clickedDirs \cup {item.path}
               /\ cameFrom' = {currentPath}
               /\ UNCHANGED files
          ELSE /\ selectedFile' = {item.path}
               /\ files' = Observe(files, fileKey(item.path), item.path, stale)
               /\ gLast' = RepoStep("select", item.path)
               /\ UNCHANGED <<currentPath, contents, clickedDirs, cameFrom>>
    /\ UNCHANGED <<repoOpen, rmvars>>
    /\ RepoInFlight' <= MaxRepoInFlight
    /\ UNCHANGED <<rvars, hvars, avars, pvars, ovars, svars>>

backSelectionKept == selectedFile

\* setSelectedFile(null) of handleBack
backSelection == {}

\* handleBack: the Back button is rendered when currentPath is not empty
handleBack ==
    /\ repoOpen
    /\ currentPath # <<>>
    /\ LET up == join(pop(split(currentPath))) IN
       /\ currentPath' = up
       /\ \E stale \in BOOLEAN :
             contents' = Observe(contents, contentsKey(up), up, stale)
       /\ gLast' = RepoStep("back", up)
    /\ selectedFile' = backSelection
    /\ cameFrom' = {}
    /\ UNCHANGED <<repoOpen, files, rmvars, clickedDirs>>
    /\ RepoInFlight' <= MaxRepoInFlight
    /\ UNCHANGED <<rvars, hvars, avars, pvars, ovars, svars>>

\* api.github.getRepoContents settles for the entry k
ContentsReturn ==
    /\ \E k \in RepoDirs :
          /\ contents[k].req # {}
          /\ LET path == CHOOSE x \in contents[k].req : TRUE IN
             \E resp \in {NetErr, Http(404, ErrorDetail, TRUE),
                          Http(200, Listing(path), TRUE)} :
                LET out == fetchApi(resp) IN
                /\ contents' = IF out.kind = "value"
                               THEN [contents EXCEPT ![k] = [data |-> out.body,
                                                             error |-> FALSE,
                                                             req |-> {}]]
                               ELSE [contents EXCEPT ![k].error = TRUE,
                                                     ![k].req = {}]
                /\ gLast' = RepoStep(IF out.kind = "value" THEN "contents_ok"
                                     ELSE "contents_err", path)
    /\ UNCHANGED <<repoOpen, currentPath, selectedFile, files, rmvars, clickedDirs,
                   cameFrom>>
    /\ UNCHANGED <<rvars, hvars, avars, pvars, ovars, svars>>

\* api.github.getFileContent settles for the entry k
FileReturn ==
    /\ \E k \in RepoFiles :
          /\ files[k].req # {}
          /\ LET path == CHOOSE x \in files[k].req : TRUE IN
             \E resp \in {NetErr, Http(404, ErrorDetail, TRUE),
                          Http(200, FileContent(path), TRUE)} :
                LET out == fetchApi(resp) IN
                /\ files' = IF out.kind = "value"
                            THEN [files EXCEPT ![k] = [data |-> out.body,
                                                       error |-> FALSE,
                                                       req |-> {}]]
                            ELSE [files EXCEPT ![k].error = TRUE, ![k].req = {}]
                /\ gLast' = RepoStep(IF out.kind = "value" THEN "file_ok"
                                     ELSE "file_err", path)
    /\ UNCHANGED <<repoOpen, currentPath, selectedFile, contents, rmvars,
                   clickedDirs, cameFrom>>
    /\ UNCHANGED <<rvars, hvars, avars, pvars, ovars, svars>>

\* responses of POST /api/github/repos/{owner}/{repo}/review
ReviewFileResponses ==
    {NetErr, Http(500, ErrorDetail, TRUE),
     Http(200, [kind |-> "started", review_id |-> 1], TRUE)}

\* handleReview, by the button "Review This File":
\* if (selectedFile) reviewMutation.mutate(selectedFile)
handleReview ==
    /\ reviewThisFileEnabled
    /\ rmStatus' = "pending"
    /\ rmVariables' = selectedFile
    /\ rmData' = None
    /\ rmReq' = selectedFile
    /\ gLast' = RepoStep("review", CHOOSE f \in selectedFile : TRUE)
    /\ UNCHANGED <<repoOpen, currentPath, selectedFile, contents, files,
                   clickedDirs, cameFrom>>
    /\ RepoInFlight' <= MaxRepoInFlight
    /\ UNCHANGED <<rvars, hvars, avars, pvars, ovars, svars>>

\* api.github.reviewFile settles: the mutation has no callbacks, its status
\* and data are all that changes
ReviewFileReturn ==
    /\ rmReq # {}
    /\ \E resp \in ReviewFileResponses :
          LET out == fetchApi(resp) IN
          /\ rmStatus' = IF out.kind = "value" THEN "success" ELSE "error"
          /\ rmData' = IF out.kind = "value" THEN out.body ELSE None
          /\ gLast' = RepoStep(IF out.kind = "value" THEN "review_ok"
                               ELSE "review_err",
                               CHOOSE f \in rmReq : TRUE)
    /\ rmReq' = {}
    /\ UNCHANGED <<repoOpen, currentPath, selectedFile, contents, files,
                   rmVariables, clickedDirs, cameFrom>>
    /\ UNCHANGED <<rvars, hvars, avars, pvars, ovars, svars>>

NextRepo ==
    \/ RepoEnter
    \/ RepoLeave
    \/ handleFileClick
    \/ handleBack
    \/ ContentsReturn
    \/ FileReturn
    \/ handleReview
    \/ ReviewFileReturn

----------------------------------------------------------------------------
\* PRDetailPage: the reviews of a pull request

\* PR reviews the backend keeps for the pull request
MaxReviews == 2

PrPollMs == 3000

\* A PRReview as listed by listPRReviews, the latest first
PRReview(s) == [status |-> s]

PRReviewList(l) == [kind |-> "list", reviews |-> l]

RECURSIVE SeqsUpTo(_)
SeqsUpTo(n) ==
    IF n = 0 THEN {<<>>}
    ELSE LET shorter == SeqsUpTo(n - 1) IN
         shorter \cup {<<PRReview(st)>> \o l : st \in Statuses,
                                               l \in {x \in shorter : Len(x) = n - 1}}

\* data?.some((r) => r.status === "analyzing")
hasAnalyzing(data) ==
    data # None /\ \E i \in 1..Len(data.reviews) : data.reviews[i].status = "analyzing"

prRefetchIntervalLatestOnly(query) ==
    IF query.data # None /\ Len(query.data.reviews) > 0
       /\ query.data.reviews[1].status = "analyzing"
    THEN PrPollMs ELSE 0

\* refetchInterval of the pr-reviews query: 0 stands for false
prRefetchInterval(query) == IF hasAnalyzing(query.data) THEN PrPollMs ELSE 0

prLoading == prFetching /\ prData = None /\ ~prError

\* reviews?.[0], None for undefined
latestReview ==
    IF prData # None /\ Len(prData.reviews) > 0 THEN prData.reviews[1] ELSE None

\* disabled of the Run New Review button
runNewReviewDisabled ==
    prMStatus = "pending" \/ (latestReview # None /\ latestReview.status = "analyzing")

\* The Start First Review button is rendered
startFirstReviewShown ==
    IF prData = None THEN TRUE ELSE Len(prData.reviews) = 0

PrStep(ev) == [ev |-> ev,
               timer |-> prTimer,
               list |-> IF prData = None THEN <<>> ELSE prData.reviews,
               disabled |-> runNewReviewDisabled]

\* query.fetch(): a fetch in flight is joined or, by an invalidation, replaced
\* by a new one whose answer is the one used
PrFetchQuery ==
    /\ prFetching' = TRUE
    /\ prError' = IF ~prFetching /\ prData = None THEN FALSE ELSE prError

PrUpdateTimer ==
    prTimer' = IF prOpen' THEN prRefetchInterval(Query(prData', prError')) ELSE 0

PrInit ==
    /\ prOpen = FALSE
    /\ prSrv \in SeqsUpTo(MaxReviews)
    /\ prData = None
    /\ prError = FALSE
    /\ prFetching = FALSE
    /\ prInvalidated = FALSE
    /\ prTimer = 0
    /\ prMStatus = "idle"
    /\ prPosts = 0
    /\ pLast = [ev |-> "init", timer |-> 0, list |-> <<>>, disabled |-> FALSE]

PrMount ==
    /\ ~prOpen
    /\ prOpen' = TRUE
    /\ \E stale \in BOOLEAN :
          IF prData = None \/ prInvalidated \/ stale
          THEN PrFetchQuery
          ELSE UNCHANGED <<prFetching, prError>>
    /\ pLast' = PrStep("mount")
    /\ UNCHANGED <<prSrv, prData, prInvalidated, prMStatus, prPosts>>
    /\ UNCHANGED <<rvars, hvars, avars, gvars, ovars, svars>>
    /\ PrUpdateTimer

PrUnmount ==
    /\ prOpen
    /\ prOpen' = FALSE
    /\ prMStatus' = "idle"
    /\ pLast' = PrStep("unmount")
    /\ UNCHANGED <<prSrv, prData, prError, prFetching, prInvalidated, prPosts>>
    /\ UNCHANGED <<rvars, hvars, avars, gvars, ovars, svars>>
    /\ PrUpdateTimer

\* The refetch timer fires
PrTimerTick ==
    /\ prOpen
    /\ prTimer # 0
    /\ PrFetchQuery
    /\ pLast' = PrStep("timer")
    /\ UNCHANGED <<prOpen, prSrv, prData, prInvalidated, prMStatus, prPosts>>
    /\ UNCHANGED <<rvars, hvars, avars, gvars, ovars, svars>>
    /\ PrUpdateTimer

\* queryFn: api.github.listPRReviews settles
PrFetchReturn ==
    /\ prFetching
    /\ \E resp \in {NetErr, Http(500, ErrorDetail, TRUE),
                    Http(200, PRReviewList(prSrv), TRUE)} :
          LET out == fetchApi(resp) IN
          /\ IF out.kind = "value"
             THEN /\ prData' = out.body
                  /\ prError' = FALSE
                  /\ prInvalidated' = FALSE
             ELSE /\ prError' = TRUE
                  /\ UNCHANGED <<prData, prInvalidated>>
          /\ pLast' = PrStep(IF out.kind = "value" THEN "fetch_ok" ELSE "fetch_err")
    /\ prFetching' = FALSE
    /\ UNCHANGED <<prOpen, prSrv, prMStatus, prPosts>>
    /\ UNCHANGED <<rvars, hvars, avars, gvars, ovars, svars>>
    /\ PrUpdateTimer

\* reviewMutation.mutate()
PrMutate(ev) ==
    /\ prPosts < MaxInFlight
    /\ Len(prSrv) + prPosts < MaxReviews
    /\ prMStatus' = "pending"
    /\ prPosts' = prPosts + 1
    /\ pLast' = PrStep(ev)
    /\ UNCHANGED <<prOpen, prSrv, prData, prError, prFetching, prInvalidated,
                   prTimer>>
    /\ UNCHANGED <<rvars, hvars, avars, gvars, ovars, svars>>

\* onClick of Run New Review
ClickRunNewReview ==
    /\ prOpen
    /\ ~prLoading
    /\ ~runNewReviewDisabled
    /\ PrMutate("run_new")

\* onClick of Start First Review
ClickStartFirstReview ==
    /\ prOpen
    /\ ~prLoading
    /\ startFirstReviewShown
    /\ prMStatus # "pending"
    /\ PrMutate("start_first")

\* mutationFn: api.github.reviewPullRequest settles; the backend adds a review
\* that is pending or already analyzing, or refuses.  onSuccess invalidates
\* the list, which is fetched again when the page is mounted.
PrReviewReturn ==
    /\ prPosts > 0
    /\ \E tracked \in BOOLEAN, accept \in BOOLEAN, st \in {"pending", "analyzing"} :
          /\ tracked => prOpen /\ prMStatus = "pending"
          /\ ~tracked => prPosts > (IF prMStatus = "pending" THEN 1 ELSE 0)
          /\ prSrv' = IF accept THEN <<PRReview(st)>> \o prSrv ELSE prSrv
          /\ LET resp == IF accept THEN Http(200, PRReview(st), TRUE)
                         ELSE Http(500, ErrorDetail, TRUE)
                 out == fetchApi(resp) IN
             /\ IF out.kind = "value"
                THEN /\ prInvalidated' = TRUE
                     /\ IF prOpen THEN PrFetchQuery
                        ELSE UNCHANGED <<prFetching, prError>>
                ELSE UNCHANGED <<prInvalidated, prFetching, prError>>
             /\ prMStatus' = IF tracked
                             THEN (IF out.kind = "value" THEN "success" ELSE "error")
                             ELSE prMStatus
             /\ pLast' = PrStep(IF out.kind = "value" THEN "review_ok" ELSE "review_err")
    /\ prPosts' = prPosts - 1
    /\ UNCHANGED <<prOpen, prData>>
    /\ UNCHANGED <<rvars, hvars, avars, gvars, ovars, svars>>
    /\ PrUpdateTimer

\* The backend works on a review: pending -> analyzing -> completed / failed
PrWorker ==
    /\ \E i \in 1..Len(prSrv) :
          \/ /\ prSrv[i].status = "pending"
             /\ prSrv' = [prSrv EXCEPT ![i] = PRReview("analyzing")]
          \/ /\ prSrv[i].status = "analyzing"
             /\ \E st \in Terminal : prSrv' = [prSrv EXCEPT ![i] = PRReview(st)]
    /\ pLast' = PrStep("worker")
    /\ UNCHANGED <<prOpen, prData, prError, prFetching, prInvalidated, prTimer,
                   prMStatus, prPosts>>
    /\ UNCHANGED <<rvars, hvars, avars, gvars, ovars, svars>>

NextPr ==
    \/ PrMount
    \/ PrUnmount
    \/ PrTimerTick
    \/ PrFetchReturn
    \/ ClickRunNewReview
    \/ ClickStartFirstReview
    \/ PrReviewReturn
    \/ PrWorker

----------------------------------------------------------------------------
\* The refetchInterval callbacks of the two polling pages, as the observer
\* of a query evaluates them after every update of the query's state

\* Updates of a query that are counted
MaxUpdates == 2

\* query.state with the counts of its successful and failed fetches
QueryState(data, error, updates, errors) ==
    [data |-> data, error |-> error,
     dataUpdateCount |-> updates, errorUpdateCount |-> errors]

\* The data a fetch of the page's query can return
ObservedData(pg) ==
    IF pg = "review"
    THEN {Review(st, {}) : st \in Statuses}
    ELSE {PRReviewList(l) : l \in SeqsUpTo(MaxReviews)}

\* The interval the page's callback returns for the state of its query
IntervalOf(pg, query) ==
    IF pg = "review" THEN refetchInterval(query) ELSE prRefetchInterval(query)

ObserverInit ==
    /\ obsPage \in {"review", "pr"}
    /\ obsQuery = QueryState(None, NoError, 0, 0)
    /\ obsTimer = 0

\* A fetch of the query succeeds and the observer evaluates the callback
ObserverFetchSucceeds ==
    /\ obsQuery.dataUpdateCount < MaxUpdates
    /\ \E data \in ObservedData(obsPage) :
          obsQuery' = QueryState(data, NoError, obsQuery.dataUpdateCount + 1,
                                 obsQuery.errorUpdateCount)
    /\ obsTimer' = IntervalOf(obsPage, obsQuery')
    /\ UNCHANGED obsPage
    /\ UNCHANGED <<rvars, hvars, avars, gvars, pvars, svars>>

\* A fetch of the query fails and the observer evaluates the callback
ObserverFetchFails ==
    /\ obsQuery.errorUpdateCount < MaxUpdates
    /\ obsQuery' = QueryState(obsQuery.data, "API error: 500",
                              obsQuery.dataUpdateCount,
                              obsQuery.errorUpdateCount + 1)
    /\ obsTimer' = IntervalOf(obsPage, obsQuery')
    /\ UNCHANGED obsPage
    /\ UNCHANGED <<rvars, hvars, avars, gvars, pvars, svars>>

NextObserver ==
    \/ ObserverFetchSucceeds
    \/ ObserverFetchFails

----------------------------------------------------------------------------
\* GitHubPage: "Sync from GitHub", the message it sets and the timers that
\* clear the message

\* syncs a page makes
MaxSyncs == 3

\* isLoading, error and the page as GitHubPage returns them
GitHubPageView ==
    IF instFetching /\ ~instData /\ ~instError THEN "loading"
    ELSE IF instError THEN "error"
    ELSE "page"

\* {syncMessage && <div>{syncMessage}</div>} of the page
syncMessageShown == ghOpen /\ GitHubPageView = "page" /\ syncMsg # {}

SyncStep(ev, sync) == [ev |-> ev, sync |-> sync]

SyncInit ==
    /\ ghOpen = FALSE
    /\ instData = FALSE
    /\ instError = FALSE
    /\ instFetching = FALSE
    /\ syncStatus = "idle"
    /\ syncReq = FALSE
    /\ syncs = 0
    /\ syncMsg = {}
    /\ clearTimers = <<>>
    /\ sLast = SyncStep("init", 0)

\* The page mounts: syncMessage is null, the mutation idle, and the
\* installations are fetched when the cache holds none or holds stale ones
GitHubMount ==
    /\ ~ghOpen
    /\ ghOpen' = TRUE
    /\ \E stale \in BOOLEAN :
          /\ instFetching' = (instFetching \/ ~instData \/ stale)
          /\ instError' = IF ~instData /\ ~instFetching THEN FALSE ELSE instError
    /\ syncStatus' = "idle"
    /\ syncs' = 0
    /\ syncMsg' = {}
    /\ sLast' = SyncStep("mount", 0)
    /\ UNCHANGED <<instData, syncReq, clearTimers>>
    /\ UNCHANGED <<rvars, hvars, avars, gvars, pvars, ovars>>

\* The page unmounts: its state is gone, and what a sync request or a timer
\* of this mount does later reaches no component
GitHubUnmount ==
    /\ ghOpen
    /\ ghOpen' = FALSE
    /\ syncStatus' = "idle"
    /\ syncReq' = FALSE
    /\ syncs' = 0
    /\ syncMsg' = {}
    /\ clearTimers' = <<>>
    /\ sLast' = SyncStep("unmount", 0)
    /\ UNCHANGED <<instData, instError, instFetching>>
    /\ UNCHANGED <<rvars, hvars, avars, gvars, pvars, ovars>>

\* api.github.listInstallations settles
InstallationsReturn ==
    /\ instFetching
    /\ instFetching' = FALSE
    /\ \E resp \in {NetErr, Http(500, ErrorDetail, TRUE),
                     Http(200, [kind |-> "installations"], TRUE)} :
          LET out == fetchApi(resp) IN
          /\ instData' = (instData \/ out.kind = "value")
          /\ instError' = (out.kind # "value")
          /\ sLast' = SyncStep(IF out.kind = "value" THEN "list_ok" ELSE "list_err", 0)
    /\ UNCHANGED <<ghOpen, syncStatus, syncReq, syncs, syncMsg, clearTimers>>
    /\ UNCHANGED <<rvars, hvars, avars, gvars, pvars, ovars>>

\* onClick={() => syncMutation.mutate()}, disabled={syncMutation.isPending}
ClickSync ==
    /\ ghOpen
    /\ GitHubPageView = "page"
    /\ syncStatus # "pending"
    /\ syncs < MaxSyncs
    /\ syncStatus' = "pending"
    /\ syncReq' = TRUE
    /\ sLast' = SyncStep("sync", syncs + 1)
    /\ UNCHANGED <<ghOpen, instData, instError, instFetching, syncs, syncMsg,
                   clearTimers>>
    /\ UNCHANGED <<rvars, hvars, avars, gvars, pvars, ovars>>

\* api.github.syncInstallations settles. onSuccess invalidates the
\* installations, sets the message and a timer; onError sets the message and
\* a timer. No timer is ever cancelled.
SyncReturn ==
    /\ syncReq
    /\ syncReq' = FALSE
    /\ syncs' = syncs + 1
    /\ \E resp \in {NetErr, Http(500, ErrorDetail, TRUE),
                     Http(200, [kind |-> "synced"], TRUE)} :
          LET out == fetchApi(resp) IN
          /\ syncStatus' = IF out.kind = "value" THEN "success" ELSE "error"
          /\ instFetching' = (instFetching \/ out.kind = "value")
          /\ syncMsg' = {[sync |-> syncs + 1,
                          text |-> IF out.kind = "value" THEN "Synced" ELSE "Error"]}
          /\ sLast' = SyncStep(IF out.kind = "value" THEN "sync_ok" ELSE "sync_err",
                               syncs + 1)
    /\ clearTimers' = Append(clearTimers, syncs + 1)
    /\ UNCHANGED <<ghOpen, instData, instError>>
    /\ UNCHANGED <<rvars, hvars, avars, gvars, pvars, ovars>>

\* () => setSyncMessage(null) runs, 5000 ms after the sync that set the timer
\* settled: timers of one delay run in the order they were set
ClearTimerFires ==
    /\ clearTimers # <<>>
    /\ clearTimers' = Tail(clearTimers)
    /\ syncMsg' = {}
    /\ sLast' = SyncStep("clear", Head(clearTimers))
    /\ UNCHANGED <<ghOpen, instData, instError, instFetching, syncStatus,
                   syncReq, syncs>>
    /\ UNCHANGED <<rvars, hvars, avars, gvars, pvars, ovars>>

NextSync ==
    \/ GitHubMount
    \/ GitHubUnmount
    \/ InstallationsReturn
    \/ ClickSync
    \/ SyncReturn
    \/ ClearTimerFires

----------------------------------------------------------------------------
\* Specifications

Next ==
    \/ Mount
    \/ Unmount
    \/ TimerTick
    \/ FetchReturn
    \/ OrphanReturn
    \/ EditorReady
    \/ ToggleComplexModel
    \/ ClickStartAnalysis
    \/ AnalyzeReturn
    \/ WorkerStart
    \/ WorkerFinish

\* Nothing is open; the review page's model starts from any review, the
\* other pages from a backend with no PR review
Init ==
    /\ ReviewInit
    /\ HomeInit
    /\ AppInit
    /\ RepoInit
    /\ PrInit /\ prSrv = <<>>
    /\ ObserverInit /\ obsPage = "review"
    /\ SyncInit

Spec == Init /\ [][Next]_vars

\* The timer fires while armed, the backend ends every analysis, and a
\* fetch that keeps being retried gets an answer
LiveSpec ==
    /\ Init
    /\ [][Next]_vars
    /\ WF_vars(TimerTick)
    /\ WF_vars(WorkerFinish)
    /\ SF_vars(FetchSucceeds)

\* The form alone, the review page left unmounted
InitHome == Init /\ srv = "pending"

SpecHome == InitHome /\ [][NextHome]_vars

\* The pages over the cache, the review page's detailed model left unmounted
SpecApp == InitHome /\ [][NextApp]_vars

\* The repository page alone
SpecRepo == InitHome /\ [][NextRepo]_vars

\* The pull-request review page alone, from any list of PR reviews
InitPr ==
    /\ ReviewInit /\ srv = "pending"
    /\ HomeInit
    /\ AppInit
    /\ RepoInit
    /\ PrInit
    /\ ObserverInit /\ obsPage = "review"
    /\ SyncInit

SpecPr == InitPr /\ [][NextPr]_vars

\* The refetchInterval callbacks alone, for either page
InitObserver ==
    /\ ReviewInit /\ srv = "pending"
    /\ HomeInit
    /\ AppInit
    /\ RepoInit
    /\ PrInit /\ prSrv = <<>>
    /\ ObserverInit
    /\ SyncInit

SpecObserver == InitObserver /\ [][NextObserver]_vars

\* The GitHub page's sync alone
SpecSync == InitHome /\ [][NextSync]_vars

----------------------------------------------------------------------------
\* Properties of the review page

\* C1: on the review page a refetch timer is armed exactly when the held
\* review data has status "analyzing" (never with no data or another
\* status), its interval is the fixed one, and every timer-driven refetch
\* happens while the held status is "analyzing".
C1_PollsExactlyWhileAnalyzing ==
    /\ [](timer # 0 <=> (mounted /\ isAnalyzing))
    /\ [](timer \in {0, PollMs})
    /\ [][last'.ev = "timer" => isAnalyzing /\ qFetching']_vars

C1_Witness ==
    /\ last.ev = "timer"
    /\ last.held = "analyzing"
    /\ qFetching
    /\ timer = PollMs

\* C2 as stated: once an analyze request succeeded and the user does nothing
\* more, the page keeps making progress on its own (a refetch in flight or a
\* timer armed) until it displays completed or failed, whatever status the
\* refetch that follows the invalidation returned.
C2_Original ==
    (awaiting /\ mounted /\ qError = NoError)
        => (qFetching \/ timer # 0 \/ DisplayedStatus \in Terminal)

\* C2 amended: the success of the analyze request invalidates the entry and
\* starts a refetch at once; from then on the page stops making progress
\* short of a terminal status only when the status it holds is "pending"
\* (a held "analyzing" always has a timer armed or a fetch in flight).
C2_PollsAfterStartUnlessPending ==
    /\ [][last'.ev = "analyze_ok" /\ mounted => qFetching' /\ qInvalidated']_vars
    /\ []((awaiting /\ mounted /\ qError = NoError /\ ~qFetching /\ timer = 0)
            => DisplayedStatus \in Terminal \cup {"pending"})

C2_Witness ==
    /\ awaiting
    /\ mounted
    /\ last.ev = "fetch_ok"
    /\ last.held = "analyzing"
    /\ DisplayedStatus \in Terminal

\* C3: a review displayed as "analyzing" on an open page leads to the page
\* displaying completed or failed with no timer armed (or to the page being
\* closed), given that the timer fires, the backend ends the analysis and
\* fetches eventually succeed.
C3_AnalyzingLeadsToTerminal ==
    (mounted /\ DisplayedStatus = "analyzing")
        ~> ((DisplayedStatus \in Terminal /\ timer = 0) \/ ~mounted)

C3_Witness ==
    /\ mounted
    /\ last.ev = "fetch_ok"
    /\ last.view = "review"
    /\ last.held = "analyzing"
    /\ DisplayedStatus \in Terminal
    /\ timer = 0
    /\ ~qFetching

\* C4: a fetch that throws while "analyzing" is held leaves the timer armed
\* (the error view is shown meanwhile), and the next successful fetch clears
\* the error and shows the review again.
C4_FailedFetchKeepsPolling ==
    /\ []((mounted /\ isAnalyzing /\ qError # NoError)
            => (timer = PollMs /\ ReviewPageView = "error"))
    /\ [][(last'.ev = "fetch_err" /\ mounted /\ isAnalyzing)
            => (timer' = PollMs /\ qData' = qData)]_vars
    /\ [][last'.ev = "fetch_ok"
            => (qError' = NoError /\ (mounted => ReviewPageView' = "review"))]_vars

C4_Witness ==
    /\ mounted
    /\ last.ev = "fetch_ok"
    /\ last.view = "error"
    /\ last.held = "analyzing"
    /\ ReviewPageView = "review"

\* C6 as stated: at most one GET for the key ["review", reviewId] is on the
\* wire at any time.
C6_Original == InFlightGets <= 1

\* C6 amended: the cache tracks one fetch per key.  A timer-driven refetch or
\* a mount sends a request only when no fetch is tracked for the key; the
\* invalidation after a successful mutation that finds a fetch tracked while
\* data is held sends a new request and drops the old fetch, whose request
\* stays on the wire, so that two requests for the key can be in flight.
C6_SecondRequestOnlyByInvalidation ==
    [][InFlightGets' > InFlightGets
        => (~qFetching
            \/ (last'.ev = "analyze_ok" /\ mounted /\ qData # None))]_vars

C6_Witness ==
    /\ last.ev = "analyze_ok"
    /\ orphans = 1
    /\ qFetching

\* C7 as stated: a failed fetch and a failed job lead to the same displayed
\* state (the generic error) with the same available actions.
C7_Original ==
    (mounted /\ (qError # NoError \/ (qData # None /\ qData.status = "failed")))
        => (ReviewPageView = "error" /\ AvailableActions = {})

\* C7 amended: a failed fetch shows the one generic error view with no action,
\* whatever the cause and whatever review is held; a review held with status
\* "failed" and no fetch error is shown as a review and offers Start Analysis.
C7_FetchErrorGenericJobFailureNot ==
    /\ (mounted /\ qError # NoError)
          => (ReviewPageView = "error" /\ AvailableActions = {})
    /\ (mounted /\ qError = NoError /\ qData # None /\ qData.status = "failed")
          => (/\ ReviewPageView = "review"
              /\ "toggle" \in AvailableActions
              /\ (mStatus # "pending" => "start" \in AvailableActions))

C7_Witness ==
    /\ mounted
    /\ last.ev = "fetch_err"
    /\ last.call.resp.kind = "neterr"
    /\ qData # None
    /\ qData.status = "failed"
    /\ ReviewPageView = "error"

\* C12: the review held by the client is a copy of the server's record: it
\* is a review with one of the four statuses, it changes only when a fetch of
\* the review succeeds, to the body of that response, which is the record the
\* server holds at that moment; no handler of the page (Start Analysis and
\* the settling of the analyze request included) writes to it.
C12_CacheHoldsServerResponses ==
    /\ [](qData # None => (qData.kind = "review" /\ qData.status \in Statuses))
    /\ [][qData' # qData
            => (/\ last'.ev = "fetch_ok"
                /\ ResponseOk(last'.call.resp)
                /\ qData' = last'.call.resp.body
                /\ qData' = Review(srv, srvComments))]_vars
    /\ [][last'.ev \in {"mount", "unmount", "timer", "toggle", "start",
                         "analyze_ok", "analyze_err", "orphan"}
            => qData' = qData]_vars

C12_Witness ==
    /\ last.ev = "analyze_ok"
    /\ last.call.resp.body = Review("analyzing", {})
    /\ srv = "analyzing"
    /\ qData = Review("pending", {})
    /\ qFetching

\* C16: the analyze request sent by Start Analysis carries use_complex_model
\* equal to the checkbox at the click; the checkbox is unchecked when the
\* page mounts and changes only by a toggle, so that a request sent with no
\* toggle since the mount carries false.
C16_RequestCarriesCheckbox ==
    /\ [][last'.ev = "start"
            => (/\ last'.call.endpoint = "POST /api/reviews/{id}/analyze"
                /\ last'.call.body.use_complex_model = useComplexModel
                /\ posts' = posts + 1)]_vars
    /\ [][last'.ev = "mount" => ~useComplexModel']_vars
    /\ [][useComplexModel' # useComplexModel
            => (last'.ev = "toggle" \/ (last'.ev = "unmount" /\ ~useComplexModel'))]_vars

C16_Witness ==
    /\ last.ev = "start"
    /\ last.call.body.use_complex_model
    /\ useComplexModel
    /\ last.held = "failed"
    /\ posts = 1

\* C17 as stated: on the open page Start Analysis is offered exactly when the
\* status fetched last is pending or failed.
C17_Original ==
    mounted => (StartOffered <=> (qData # None /\ qData.status \in {"pending", "failed"}))

\* C17 amended: Start Analysis is offered exactly when the page shows the
\* review (data held and no fetch error) and the held status is pending or
\* failed; it is never offered for a review held as analyzing or completed,
\* and every analyze request is sent from a page that showed the review as
\* pending or failed.
C17_OfferedWhenShownPendingOrFailed ==
    /\ [](StartOffered <=> (/\ mounted
                            /\ qData # None
                            /\ qError = NoError
                            /\ qData.status \in {"pending", "failed"}))
    /\ []((qData # None /\ qData.status \in {"analyzing", "completed"})
            => (~StartOffered /\ "start" \notin AvailableActions))
    /\ [][posts' > posts
            => (/\ last'.ev = "start"
                /\ last'.view = "review"
                /\ last'.held \in {"pending", "failed"}
                /\ StartOffered)]_vars

C17_Witness ==
    /\ last.ev = "start"
    /\ last.held = "pending"
    /\ last.view = "review"
    /\ mStatus = "pending"
    /\ StartOffered
    /\ srv = "completed"

\* C19 as stated: the page sends no analyze request while one is on the wire,
\* nor after one succeeded and before a fetch of the review succeeded (the
\* entry is still marked invalidated).
C19_Original ==
    [][posts' > posts => (posts = 0 /\ ~qInvalidated)]_vars

----------------------------------------------------------------------------
\* Properties of the submit form

\* C8: whenever the code is empty or only whitespace the submit button is
\* disabled, and a create-review request is only ever sent for code that is
\* not blank, carrying that code.
C8_BlankCodeNeverSubmitted ==
    /\ [](trim(code) = <<>> => submitDisabled)
    /\ []((\A i \in 1..Len(code) : code[i] \in WhiteSpace) => submitDisabled)
    /\ [][(createReq' # createReq /\ createReq' # None)
            => (/\ \E i \in 1..Len(code) : code[i] \notin WhiteSpace
                /\ createReq'.code_content = code)]_vars

C8_Witness ==
    /\ route = "/"
    /\ Len(code) = 2
    /\ \A i \in 1..Len(code) : code[i] \in WhiteSpace
    /\ language # ""
    /\ filename # ""
    /\ createStatus = "error"
    /\ submitDisabled

\* C21: a create request that succeeds navigates to /reviews/<id> with the id
\* of the response; one that fails does not navigate, shows the failure
\* message and leaves code, language and filename as entered, the submit button
\* being enabled again for code that is not blank; the form is left for a
\* review only by a successful create request.
C21_NavigatesOnlyOnSuccess ==
    /\ [][hLast'.ev = "create_ok"
            => (/\ createReq # None
                /\ createData' \in {[kind |-> "created", id |-> i] : i \in ReviewIds}
                /\ route' = "/reviews/" \o ToString(createData'.id))]_vars
    /\ [][hLast'.ev = "create_err"
            => (/\ createReq # None
                /\ route' = route
                /\ createFailureShown'
                /\ code' = code
                /\ language' = language
                /\ filename' = filename
                /\ submitDisabled' <=> (trim(code) = <<>>))]_vars
    /\ [][(route = "/" /\ route' # "/") => hLast'.ev = "create_ok"]_vars

C21_Witness ==
    /\ hLast.ev = "create_err"
    /\ route = "/"
    /\ createFailureShown
    /\ trim(code) # <<>>
    /\ language # ""
    /\ filename # ""
    /\ ~submitDisabled

----------------------------------------------------------------------------
\* Properties of the HTTP client and of the pages over the cache

\* C5 as stated: when a mutating request succeeds, every cached entry whose
\* server representation it changes is invalidated (marked or refetching), for
\* every mutation of the client.
C5_Original ==
    [][aLast'.ev = "mut_ok"
        => \A m \in Mutations : aLast'.name = m
             => \A k \in Affects(m) :
                  cache[k].data # "none"
                    => (cache'[k].invalidated \/ cache'[k].fetching)]_vars

\* C9: every API call either yields the parsed body of an ok response or
\* throws: a value is yielded only for an ok response whose body parses and is
\* that body, a non-ok response always throws, and the cache never holds
\* anything but the body of an ok response of its endpoint.
C9_OkValueOrThrow ==
    /\ aLast.call # None
          => LET r == aLast.call.resp
                 o == aLast.call.out IN
             /\ o.kind \in {"value", "throw"}
             /\ o.kind = "value" <=> (ResponseOk(r) /\ r.parses)
             /\ o.kind = "value" => o.body = r.body
             /\ o.kind = "throw" => o.body = None
             /\ aLast.ev \in {"query_ok", "mut_ok"} <=> o.kind = "value"
    /\ \A k \in QueryKeys : cache[k].data \in {"none"} \cup OkBodies(k)

C9_Witness ==
    /\ aLast.ev = "query_err"
    /\ aLast.call.endpoint = "GET /api/github/repos/{owner}/{repo}/file"
    /\ aLast.call.resp.kind = "http"
    /\ aLast.call.resp.code = 404
    /\ aLast.call.resp.parses
    /\ aLast.call.out.kind = "throw"
    /\ cache["file-content"].data = "none"

\* C10 as stated: whenever a query or a mutation of a page fails, the page
\* then displays a failure message.
C10_Original ==
    [][/\ aLast'.ev = "query_err"
          => \A k \in QueryKeys : aLast'.name = k => QueryView(k)' = "failure"
       /\ aLast'.ev = "mut_err"
          => \A m \in Mutations : aLast'.name = m => MutationFailureShown(m)']_vars

C14_DisplayedIsForCurrentKey ==
    /\ []((repoOpen /\ ContentsData # None) => ContentsData.path = currentPath)
    /\ [](\A f \in selectedFile : FileData # None => FileData.path = f)
    /\ [][(gLast'.ev = "contents_ok" /\ gLast'.path # currentPath)
            => (DisplayedItems' = DisplayedItems /\ ContentsData' = ContentsData)]_vars
    /\ [][(gLast'.ev = "file_ok" /\ gLast'.path \notin selectedFile)
            => FileData' = FileData]_vars

C14_Witness ==
    /\ repoOpen
    /\ gLast.ev = "contents_ok"
    /\ gLast.path = <<"s">>
    /\ currentPath = <<>>
    /\ ContentsData = Listing(<<>>)
    /\ contents[contentsKey(<<"s">>)].data = Listing(<<"s">>)

\* C22: on the repository page a click on a listed directory sets currentPath
\* to that directory and clears the selected file; a click on a listed file
\* selects that file and leaves currentPath unchanged; Back clears the selected
\* file; and while the page stays mounted no other step (a response that
\* arrives, starting a review, the review request settling) changes
\* currentPath or the selected file.
C22_OnlyClicksAndBackNavigate ==
    /\ [][gLast'.ev = "open_dir"
            => (/\ [path |-> gLast'.path, type |-> "dir"] \in DisplayedItems
                /\ currentPath' = gLast'.path
                /\ selectedFile' = {})]_vars
    /\ [][gLast'.ev = "select"
            => (/\ [path |-> gLast'.path, type |-> "file"] \in DisplayedItems
                /\ selectedFile' = {gLast'.path}
                /\ currentPath' = currentPath)]_vars
    /\ [][gLast'.ev = "back" => selectedFile' = {}]_vars
    /\ [][(repoOpen /\ repoOpen'
             /\ <<currentPath, selectedFile>>' # <<currentPath, selectedFile>>)
            => gLast'.ev \in {"open_dir", "select", "back"}]_vars

C22_Witness ==
    /\ repoOpen
    /\ gLast.ev = "back"
    /\ gLast.path = <<"s">>
    /\ currentPath = <<"s">>
    /\ selectedFile = {}
    /\ rmStatus = "success"
    /\ rmVariables = {<<"s", "/", "m">>}

\* C23: Back after a click on a directory made at currentPath P restores P,
\* whatever responses arrive and whatever files are selected in between; the
\* current path is always the root or a directory that was clicked since the
\* page mounted; Back from a path of one segment yields the root.
C23_BackUndoesEnter ==
    /\ [][gLast'.ev = "back" => \A P \in cameFrom : currentPath' = P]_vars
    /\ [](currentPath = <<>> \/ currentPath \in clickedDirs)
    /\ [][(gLast'.ev = "back" /\ \A i \in 1..Len(currentPath) : currentPath[i] # "/")
            => currentPath' = <<>>]_vars

C23_Witness ==
    /\ repoOpen
    /\ gLast.ev = "back"
    /\ currentPath = <<"s">>
    /\ clickedDirs = {<<"s">>, <<"s", "/", "l">>}
    /\ contents[<<"s", "/", "l">>].req # {}

\* C24 as stated: whenever the "Review started" banner is displayed, the
\* selected file is the file whose review request succeeded.
C24_Original ==
    reviewBannerShown => selectedFile = rmVariables

\* C25 as stated: a timer that runs never removes the message of another sync
\* than the one that set the timer, so the message of a sync stays until the
\* 5 seconds of its own timer have passed.
C25_Original ==
    [][(sLast'.ev = "clear" /\ clearTimers' # clearTimers)
        => \A m \in syncMsg : m.sync = sLast'.sync]_vars

\* C15 as stated: whenever the page shows a completed review with comments in
\* an editor that was created, the editor carries a decoration for the line
\* range of every comment.
C15_Original ==
    (mounted /\ ReviewPageView = "review" /\ editor = "ready"
        /\ qData.status = "completed")
      => \A c \in qData.comments :
            [start |-> c.line_start, end |-> c.line_end] \in decorations

\* C18: on the pull-request review page the refetch timer is armed, with the
\* interval of 3000 ms, exactly when the page is open and some review of the
\* list fetched last, whatever its position, is analyzing; with no list, an
\* empty list or no analyzing review there is no timer, and every
\* timer-driven refetch happens while some held review is analyzing.
C18_PrPollsWhileAnyAnalyzing ==
    /\ [](prTimer # 0 <=> (prOpen /\ hasAnalyzing(prData)))
    /\ [](prTimer \in {0, PrPollMs})
    /\ [](startFirstReviewShown => prTimer = 0)
    /\ [][pLast'.ev = "timer" => (hasAnalyzing(prData) /\ prFetching')]_vars
    /\ [][(pLast'.ev = "fetch_ok" /\ ~hasAnalyzing(prData')) => prTimer' = 0]_vars

C18_Witness ==
    /\ pLast.ev = "timer"
    /\ Len(pLast.list) = 2
    /\ pLast.list[1].status = "completed"
    /\ pLast.list[2].status = "analyzing"
    /\ prTimer = PrPollMs
    /\ prFetching

\* C20 as stated: a review-pull-request request is sent only when no such
\* request is on the wire and the first review of the fetched list is not
\* analyzing.
C20_Original ==
    [][prPosts' > prPosts
        => (prPosts = 0 /\ ~(latestReview # None /\ latestReview.status = "analyzing"))]_vars

\* C13: the interval a polling page arms is decided by the held data alone:
\* 2000 ms on the review page and 3000 ms on the pull-request review page
\* while something held is analyzing, no timer otherwise, whatever the number
\* of fetches that succeeded or failed before; two consecutive armed
\* intervals are equal.
C13_ConstantInterval ==
    /\ [](obsTimer =
            IF obsPage = "review"
            THEN (IF obsQuery.data # None /\ obsQuery.data.status = "analyzing"
                  THEN 2000 ELSE 0)
            ELSE (IF hasAnalyzing(obsQuery.data) THEN 3000 ELSE 0))
    /\ [](obsTimer # 0 => (obsTimer >= 2000 /\ obsTimer <= 3000))
    /\ [][(obsTimer # 0 /\ obsTimer' # 0) => obsTimer' = obsTimer]_vars

C13_Witness ==
    /\ obsPage = "review"
    /\ obsQuery.dataUpdateCount = MaxUpdates
    /\ obsQuery.errorUpdateCount = MaxUpdates
    /\ obsQuery.error # NoError
    /\ obsTimer = 2000

====
